---- MODULE Spec2Model ----
(***************************************************************************)
(* Model of app.py, the Streamlit page of the RAG document assistant.      *)
(*                                                                         *)
(* Streamlit re-executes the whole script on every widget interaction, so  *)
(* every action of Spec is one complete script run: the sidebar handlers   *)
(* (lines 59-96), then load_dotenv and the main-pane gating (103-129).     *)
(* Init is the state after the first run of a fresh session, in which no   *)
(* button can have been pressed yet.                                       *)
(*                                                                         *)
(* The three backend modules (data_loader, vectorstore, search) are not    *)
(* part of app.py: each call into them inside a try block either returns   *)
(* or raises, chosen by the environment.  os.unlink inside the per-entry   *)
(* try block (47-51) likewise succeeds or raises.  The remaining file      *)
(* system calls (makedirs, listdir, open/write, set_key) are taken to      *)
(* succeed when their precondition in the model holds.                     *)
(*                                                                         *)
(* SpecConc is a second specification: two executions of                   *)
(* save_uploaded_file (two sessions of one server process) interleaved on  *)
(* the shared upload directory.                                            *)
(***************************************************************************)
EXTENDS Integers, Sequences, FiniteSets, TLC

VARIABLES
    dotenv,              \* the .env file: [exists, vars]
    environ,             \* os.environ, restricted to the variables the script touches
    vector_store_ready,  \* st.session_state.vector_store_ready
    data,                \* the upload directory "data": [exists, files]
    uploaded_file,       \* value of the st.file_uploader widget
    query_ui,            \* whether the last run rendered the query input and "Get Answer"
    last,                \* what the last script run did (input, banners, backend calls)
    processed,           \* history: some "Process Document" run of this session succeeded
    pc,                  \* SpecConc: position of each concurrent save_uploaded_file
    todo,                \* SpecConc: entries of os.listdir still to be visited
    job,                 \* SpecConc: the uploaded file each staging writes
    wrote                \* SpecConc: the stagings in the order they wrote their file

vars == <<dotenv, environ, vector_store_ready, data, uploaded_file, query_ui, last,
          processed, pc, todo, job, wrote>>

session_vars == <<dotenv, environ, vector_store_ready, uploaded_file, query_ui, last,
                  processed>>
conc_vars == <<pc, todo, job, wrote>>

---------------------------------------------------------------------------
(* Bounds and input universes *)

NumNames == 2
AllNames == <<"a.txt", "b.pdf", "c.md", "d.txt">>
\* names an upload can have (the uploader accepts txt, pdf and md files)
Names == {AllNames[i] : i \in 1..NumNames}
\* a subdirectory that may sit in the upload directory
SubDir == "archive"
\* file contents
Bytes == {"x", "y"}
\* non-empty credential values typed into the key input
ApiKeys == {"k1", "k2"}
\* non-empty questions typed into the query input
Queries == {"q1"}

KEY == "GROQ_API_KEY"
TopK == 3

NoUpload == [name |-> "", bytes |-> ""]
Uploads == [name : Names, bytes : Bytes]

NoVars == [k \in {} |-> ""]
NoFiles == [n \in {} |-> [kind |-> "", bytes |-> ""]]

---------------------------------------------------------------------------
(* Helpers *)

SetVar(f, k, v) == [x \in DOMAIN f \cup {k} |-> IF x = k THEN v ELSE f[x]]

Call(fn, arg, k) == [fn |-> fn, arg |-> arg, top_k |-> k]
Banner(level, text, about) == [level |-> level, text |-> text, about |-> about]

Blank == [op |-> "start", input |-> "", file |-> NoUpload, failed |-> {},
          deleted |-> {}, outcome |-> "", banners |-> {}, calls |-> <<>>]

---------------------------------------------------------------------------
(* Credential persistence *)

\* variant of save_api_key that writes .env but forgets os.environ
save_api_key_file_only(file, env, key) ==
    LET created == IF file.exists THEN file ELSE [exists |-> TRUE, vars |-> NoVars]
    IN  [dotenv  |-> [created EXCEPT !.vars = SetVar(@, KEY, key)],
         environ |-> env]

\* save_api_key(key): create .env if missing, set_key, mirror into os.environ
save_api_key(file, env, key) ==
    LET created == IF file.exists THEN file ELSE [exists |-> TRUE, vars |-> NoVars]
    IN  [dotenv  |-> [created EXCEPT !.vars = SetVar(@, KEY, key)],
         environ |-> SetVar(env, KEY, key)]

\* load_dotenv(): variables of .env are copied into os.environ unless already set
load_dotenv(file, env) ==
    IF file.exists /\ KEY \in DOMAIN file.vars /\ KEY \notin DOMAIN env
    THEN SetVar(env, KEY, file.vars[KEY])
    ELSE env

\* truthiness of os.getenv("GROQ_API_KEY"): unset (None) and "" are both falsy
CredentialPresent(env) == KEY \in DOMAIN env /\ env[KEY] # ""

\* variant of the Save handler without the emptiness test
KeyAcceptedAlways(key) == TRUE

\* truthiness of api_key_input in the Save handler
KeyAccepted(key) == key # ""

\* variant of the Get Answer handler without the emptiness test
QueryAcceptedAlways(query) == TRUE

\* truthiness of query in the Get Answer handler
QueryAccepted(query) == query # ""

\* variant of the gating that tests the credential only
MainPaneNoFlag(env, ready) ==
    IF ~CredentialPresent(env) THEN "warning" ELSE "query"

\* which branch of the main pane a run renders
MainPane(env, ready) ==
    IF ~CredentialPresent(env) THEN "warning"
    ELSE IF ~ready THEN "info"
    ELSE "query"

PaneBanners(pane) ==
    IF pane = "warning" THEN {Banner("warning", "Please enter and save your Groq API Key", "")}
    ELSE IF pane = "info" THEN {Banner("info", "Please upload and process a document", "")}
    ELSE {}

---------------------------------------------------------------------------
(* Upload staging *)

\* os.path.isfile(p) or os.path.islink(p)
Deletable(e) == e.kind \in {"file", "link"}

\* variant of the loop body that tests os.path.isfile only, so links are kept
UnlinkEntryFilesOnly(files, n, raises) ==
    IF n \in DOMAIN files /\ files[n].kind = "file" /\ ~raises
    THEN [m \in DOMAIN files \ {n} |-> files[m]]
    ELSE files

\* one iteration of the clearing loop: unlink a file or link entry unless unlink raises
UnlinkEntry(files, n, raises) ==
    IF n \in DOMAIN files /\ Deletable(files[n]) /\ ~raises
    THEN [m \in DOMAIN files \ {n} |-> files[m]]
    ELSE files

\* variant of save_uploaded_file that appends: nothing is cleared
ClearDirKeepAll(files, failed) == files

\* variant of the loop without the per-entry try: the first failure ends the loop
ClearDirAbort(files, failed) ==
    IF failed = {}
    THEN [n \in {m \in DOMAIN files : ~Deletable(files[m])} |-> files[n]]
    ELSE files

\* the whole clearing loop over os.listdir; failed = the entries whose unlink raises
ClearDir(files, failed) ==
    [n \in {m \in DOMAIN files : m \in DOMAIN UnlinkEntry(files, m, m \in failed)}
        |-> files[n]]

\* variant of the write that leaves an existing entry's bytes alone
WriteFileKeepExisting(files, f) ==
    [n \in DOMAIN files \cup {f.name} |->
        IF n \in DOMAIN files THEN files[n] ELSE [kind |-> "file", bytes |-> f.bytes]]

\* open(path, "wb") and write: creates the file, or truncates what the path names
WriteFile(files, f) ==
    [n \in DOMAIN files \cup {f.name} |->
        IF n = f.name
        THEN [kind  |-> IF n \in DOMAIN files THEN files[n].kind ELSE "file",
              bytes |-> f.bytes]
        ELSE files[n]]

\* save_uploaded_file(uploaded_file): makedirs if missing, clear, write
save_uploaded_file(d, f, failed) ==
    LET listed == IF d.exists THEN d.files ELSE NoFiles
    IN  [exists |-> TRUE, files |-> WriteFile(ClearDir(listed, failed), f)]

\* st.error for every entry whose deletion raised
DeleteBanners(failed) == {Banner("error", "Failed to delete", n) : n \in failed}

\* the backend calls of the Process handler, by where it stopped
ProcessCalls(outcome) ==
    <<Call("load_all_documents", "data", 0)>> \o
    (IF outcome = "load_raised" THEN <<>>
     ELSE <<Call("build_from_documents", "faiss_store", 0)>>)

\* variant of the handler that clears the flag when the build fails
ReadyAfterReset(ready, outcome) == outcome = "ok"

\* variant of the handler that sets the flag before loading and building
ReadyAfterStaged(ready, outcome) == TRUE

\* the session flag after the Process handler
ReadyAfter(ready, outcome) == IF outcome = "ok" THEN TRUE ELSE ready

ProcessBanners(outcome) ==
    IF outcome = "ok"
    THEN {Banner("success", "Vector Store Index Built Successfully!", "")}
    ELSE {Banner("error", "Error processing document", outcome)}

\* the backend calls of the Get Answer handler, by where it stopped
AnswerCalls(query, outcome) ==
    <<Call("RAGSearch", "", 0)>> \o
    (IF outcome = "ctor_raised" THEN <<>>
     ELSE <<Call("search_and_summarize", query, TopK)>>)

AnswerBanners(outcome) ==
    IF outcome = "ok" THEN {Banner("markdown", "Summary Result:", "")}
    ELSE {Banner("error", "An error occurred", outcome)}

---------------------------------------------------------------------------
(* Initial states *)

InitDotenv ==
    {[exists |-> FALSE, vars |-> NoVars], [exists |-> TRUE, vars |-> NoVars]}
    \cup {[exists |-> TRUE, vars |-> SetVar(NoVars, KEY, k)] : k \in ApiKeys \cup {""}}

InitEnviron == {NoVars} \cup {SetVar(NoVars, KEY, k) : k \in ApiKeys}

\* the upload directory before the session: missing, empty, or holding one entry
InitData ==
    {[exists |-> FALSE, files |-> NoFiles], [exists |-> TRUE, files |-> NoFiles]}
    \cup {[exists |-> TRUE, files |-> (n :> [kind |-> k, bytes |-> b])] :
            n \in Names, k \in {"file", "link"}, b \in Bytes}
    \cup {[exists |-> TRUE, files |-> (SubDir :> [kind |-> "dir", bytes |-> ""])]}

Procs == {1, 2}

ConcIdle ==
    /\ pc = [p \in Procs |-> "idle"]
    /\ todo = [p \in Procs |-> {}]
    /\ job = [p \in Procs |-> NoUpload]
    /\ wrote = <<>>

Init ==
    /\ dotenv \in InitDotenv
    /\ \E env \in InitEnviron : environ = load_dotenv(dotenv, env)
    /\ vector_store_ready = FALSE
    /\ data \in InitData
    /\ uploaded_file = NoUpload
    /\ query_ui = (MainPane(environ, vector_store_ready) = "query")
    /\ last = [Blank EXCEPT !.banners = PaneBanners(MainPane(environ, vector_store_ready))]
    /\ processed = FALSE
    /\ ConcIdle

---------------------------------------------------------------------------
(* Script runs *)

\* lines 103-112: load_dotenv, then the gating of the main pane
RenderMain(env, ready, shown, rec) ==
    LET env1 == load_dotenv(dotenv', env)
        pane == MainPane(env1, ready)
    IN  /\ environ' = env1
        /\ query_ui' = (pane = "query")
        /\ last' = [rec EXCEPT !.banners = shown \cup PaneBanners(pane)]

\* a run with no button pressed: the user picked or cleared a file, or edited a text input
Rerun(f) ==
    /\ uploaded_file' = f
    /\ UNCHANGED <<dotenv, vector_store_ready, data, processed, conc_vars>>
    /\ RenderMain(environ, vector_store_ready, {}, [Blank EXCEPT !.op = "rerun", !.file = f])

\* "Save API Key" pressed with api_key_input = key
SaveApiKey(key) ==
    LET saved == save_api_key(dotenv, environ, key)
        rec == [Blank EXCEPT !.op = "save", !.input = key]
    IN  /\ UNCHANGED <<vector_store_ready, data, uploaded_file, processed, conc_vars>>
        /\ IF KeyAccepted(key)
           THEN /\ dotenv' = saved.dotenv
                /\ RenderMain(saved.environ, vector_store_ready,
                        {Banner("success", "API Key saved to .env and environment set!", "")},
                        [rec EXCEPT !.outcome = "saved"])
           ELSE /\ dotenv' = dotenv
                /\ RenderMain(environ, vector_store_ready,
                        {Banner("error", "Please enter a valid key.", "")},
                        [rec EXCEPT !.outcome = "rejected"])

\* "Process Document" pressed; failed = entries whose unlink raises,
\* outcome = where the backend stopped
ProcessDocument(failed, outcome) ==
    LET before == IF data.exists THEN data.files ELSE NoFiles
        staged == save_uploaded_file(data, uploaded_file, failed)
        ready == ReadyAfter(vector_store_ready, outcome)
        rec == [Blank EXCEPT !.op = "process", !.file = uploaded_file,
                             !.failed = failed,
                             !.deleted = DOMAIN before \ DOMAIN ClearDir(before, failed),
                             !.outcome = outcome,
                             !.calls = ProcessCalls(outcome)]
    IN  /\ uploaded_file # NoUpload
        /\ failed \subseteq {n \in DOMAIN before : Deletable(before[n])}
        /\ data' = staged
        /\ vector_store_ready' = ready
        /\ processed' = (processed \/ outcome = "ok")
        /\ UNCHANGED <<dotenv, uploaded_file, conc_vars>>
        /\ RenderMain(environ, ready, DeleteBanners(failed) \cup ProcessBanners(outcome), rec)

\* "Get Answer" pressed with the query input holding query
GetAnswer(query, outcome) ==
    LET rec == [Blank EXCEPT !.op = "answer", !.input = query]
    IN  /\ query_ui
        /\ UNCHANGED <<dotenv, vector_store_ready, data, uploaded_file, processed, conc_vars>>
        /\ IF MainPane(load_dotenv(dotenv, environ), vector_store_ready) # "query"
           THEN RenderMain(environ, vector_store_ready, {}, rec)
           ELSE IF QueryAccepted(query)
           THEN RenderMain(environ, vector_store_ready, AnswerBanners(outcome),
                     [rec EXCEPT !.outcome = outcome,
                                 !.calls = AnswerCalls(query, outcome)])
           ELSE RenderMain(environ, vector_store_ready,
                     {Banner("warning", "Please enter a query.", "")},
                     [rec EXCEPT !.outcome = "rejected"])

Next ==
    \/ \E f \in Uploads \cup {NoUpload} : Rerun(f)
    \/ \E key \in ApiKeys \cup {""} : SaveApiKey(key)
    \/ \E failed \in SUBSET (Names \cup {SubDir}),
          outcome \in {"ok", "load_raised", "build_raised"} :
            ProcessDocument(failed, outcome)
    \/ \E query \in Queries \cup {""},
          outcome \in {"ok", "ctor_raised", "search_raised"} :
            GetAnswer(query, outcome)

Spec == Init /\ [][Next]_vars

---------------------------------------------------------------------------
(* Two interleaved executions of save_uploaded_file on the shared directory. *)
(* Steps: the existence check (40), makedirs (41), os.listdir (45), one      *)
(* iteration of the clearing loop (46-51), and the write of the new file     *)
(* (53-55), taken as one step.                                               *)

InitConc ==
    /\ dotenv = [exists |-> FALSE, vars |-> NoVars]
    /\ environ = NoVars
    /\ vector_store_ready = FALSE
    /\ data \in InitData
    /\ uploaded_file = NoUpload
    /\ query_ui = FALSE
    /\ last = Blank
    /\ processed = FALSE
    /\ pc = [p \in Procs |-> "check"]
    /\ todo = [p \in Procs |-> {}]
    /\ job \in [Procs -> Uploads]
    /\ wrote = <<>>

\* line 40: if not os.path.exists(save_dir)
StageCheck(p) ==
    /\ pc[p] = "check"
    /\ pc' = [pc EXCEPT ![p] = IF data.exists THEN "list" ELSE "mkdir"]
    /\ UNCHANGED <<session_vars, data, todo, job, wrote>>

\* line 41: os.makedirs raises FileExistsError when the other staging created it first
StageMkdir(p) ==
    /\ pc[p] = "mkdir"
    /\ pc' = [pc EXCEPT ![p] = IF data.exists THEN "raised" ELSE "list"]
    /\ data' = [data EXCEPT !.exists = TRUE]
    /\ UNCHANGED <<session_vars, todo, job, wrote>>

\* line 45: os.listdir takes a snapshot of the entry names
StageList(p) ==
    /\ pc[p] = "list"
    /\ todo' = [todo EXCEPT ![p] = DOMAIN data.files]
    /\ pc' = [pc EXCEPT ![p] = "clear"]
    /\ UNCHANGED <<session_vars, data, job, wrote>>

\* lines 46-51: one listed entry is visited
StageUnlink(p, n, raises) ==
    /\ pc[p] = "clear"
    /\ n \in todo[p]
    /\ data' = [data EXCEPT !.files = UnlinkEntry(@, n, raises)]
    /\ todo' = [todo EXCEPT ![p] = @ \ {n}]
    /\ UNCHANGED <<session_vars, pc, job, wrote>>

\* lines 53-56: the loop is over, the new file is written
StageWrite(p) ==
    /\ pc[p] = "clear"
    /\ todo[p] = {}
    /\ data' = [data EXCEPT !.files = WriteFile(@, job[p])]
    /\ wrote' = Append(wrote, p)
    /\ pc' = [pc EXCEPT ![p] = "done"]
    /\ UNCHANGED <<session_vars, todo, job>>

NextConc ==
    \/ \E p \in Procs : StageCheck(p)
    \/ \E p \in Procs : StageMkdir(p)
    \/ \E p \in Procs : StageList(p)
    \/ \E p \in Procs, n \in Names \cup {SubDir}, raises \in BOOLEAN : StageUnlink(p, n, raises)
    \/ \E p \in Procs : StageWrite(p)

SpecConc == InitConc /\ [][NextConc]_vars

---------------------------------------------------------------------------
(* Properties *)

\* names of the entries of the upload directory that are files (not subdirectories)
Files(d) == {n \in DOMAIN d.files : d.files[n].kind # "dir"}

\* the directory holds upload f under its original name with its bytes
HoldsUpload(d, f) ==
    d.exists /\ f.name \in DOMAIN d.files /\ d.files[f.name].bytes = f.bytes

HasBanner(rec, level, text) ==
    \E b \in rec.banners : b.level = level /\ b.text = text

CallsOf(rec, fn) == SelectSeq(rec.calls, LAMBDA c : c.fn = fn)

\* C1: after a "Save API Key" run with a non-empty value v, the .env file holds
\* GROQ_API_KEY = v and os.environ holds GROQ_API_KEY = v, whatever either held before.
SaveStoresKeyInBoth ==
    (last.op = "save" /\ last.input # "") =>
        /\ dotenv.exists
        /\ KEY \in DOMAIN dotenv.vars /\ dotenv.vars[KEY] = last.input
        /\ KEY \in DOMAIN environ /\ environ[KEY] = last.input

\* C1 witness: a non-empty key was saved and both stores hold it
SaveStoresKeyInBoth_witness ==
    /\ last.op = "save" /\ last.input = "k2" /\ last.outcome = "saved"
    /\ dotenv.vars[KEY] = "k2" /\ environ[KEY] = "k2"

\* C2: a "Save API Key" run with an empty value shows the error banner and changes
\* none of the credential file, os.environ, the session flag and the upload directory.
SaveEmptyChangesNothing ==
    [][(last'.op = "save" /\ last'.input = "") =>
        /\ HasBanner(last', "error", "Please enter a valid key.")
        /\ ~HasBanner(last', "success", "API Key saved to .env and environment set!")
        /\ UNCHANGED <<dotenv, environ, vector_store_ready, data>>]_vars

\* C2 witness: an empty key was rejected in a state that holds a credential and a file
SaveEmptyChangesNothing_witness ==
    /\ last.op = "save" /\ last.input = "" /\ last.outcome = "rejected"
    /\ CredentialPresent(environ)
    /\ Files(data) # {}

\* C3 as stated: after a successful "Process Document" run the flag is true and the
\* upload directory holds exactly one file, the uploaded one, also when a deletion failed.
ProcessLeavesOnlyUpload ==
    (last.op = "process" /\ last.outcome = "ok") =>
        /\ vector_store_ready
        /\ HoldsUpload(data, last.file)
        /\ Files(data) = {last.file.name}

\* C3 amended: after a successful "Process Document" run the flag is true, the upload
\* directory holds the uploaded file, and every other entry was there before, unchanged,
\* and is a subdirectory or an entry whose deletion failed; the uploaded file is the
\* only file exactly when no deletion of another file failed.
ProcessLeavesUploadAndUndeleted ==
    [][(last'.op = "process" /\ last'.outcome = "ok") =>
        /\ vector_store_ready'
        /\ HoldsUpload(data', last'.file)
        /\ \A n \in DOMAIN data'.files \ {last'.file.name} :
              /\ data.exists /\ n \in DOMAIN data.files
              /\ data'.files[n] = data.files[n]
              /\ (n \in last'.failed \/ data.files[n].kind = "dir")
        /\ (Files(data') = {last'.file.name} <=> last'.failed \ {last'.file.name} = {})]_vars

\* C3 witness: a successful run that replaced a previous file
ProcessLeavesUploadAndUndeleted_witness ==
    /\ last.op = "process" /\ last.outcome = "ok" /\ last.failed = {}
    /\ last.deleted # {}
    /\ vector_store_ready
    /\ Files(data) = {last.file.name}

\* C4: the query UI is rendered only when GROQ_API_KEY is non-empty and the session
\* flag is true, and the search backend is only called in a session in which some
\* "Process Document" run has succeeded.
QueryGated ==
    /\ query_ui => (CredentialPresent(environ) /\ vector_store_ready)
    /\ (CallsOf(last, "RAGSearch") # <<>> \/ CallsOf(last, "search_and_summarize") # <<>>)
          => processed
    /\ last.op = "answer" => (CredentialPresent(environ) /\ vector_store_ready /\ processed)

\* C4 witness: a search was invoked
QueryGated_witness ==
    /\ query_ui /\ last.op = "answer"
    /\ CallsOf(last, "search_and_summarize") # <<>>

\* C5 as stated: an empty query warns and calls nothing; a non-empty query calls
\* search_and_summarize exactly once with the query and top_k = 3.
AnswerSearchesOnce ==
    last.op = "answer" =>
        IF last.input = ""
        THEN /\ HasBanner(last, "warning", "Please enter a query.")
             /\ last.calls = <<>>
        ELSE CallsOf(last, "search_and_summarize")
                = <<[fn |-> "search_and_summarize", arg |-> last.input, top_k |-> 3]>>

\* C5 amended: an empty query warns and calls nothing; a non-empty query constructs
\* RAGSearch exactly once and, unless the constructor raises, calls search_and_summarize
\* exactly once with the query and top_k = 3; when the constructor raises the error is
\* shown and search_and_summarize is not called.
AnswerSearchesOnceIfConstructed ==
    last.op = "answer" =>
        IF last.input = ""
        THEN /\ HasBanner(last, "warning", "Please enter a query.")
             /\ last.calls = <<>>
        ELSE /\ Len(CallsOf(last, "RAGSearch")) = 1
             /\ last.calls[1].fn = "RAGSearch"
             /\ IF last.outcome = "ctor_raised"
                THEN /\ CallsOf(last, "search_and_summarize") = <<>>
                     /\ HasBanner(last, "error", "An error occurred")
                ELSE CallsOf(last, "search_and_summarize")
                        = <<[fn |-> "search_and_summarize", arg |-> last.input, top_k |-> 3]>>

\* C5 witness: a non-empty query reached search_and_summarize
AnswerSearchesOnceIfConstructed_witness ==
    /\ last.op = "answer" /\ last.input = "q1" /\ last.outcome = "ok"
    /\ Len(CallsOf(last, "search_and_summarize")) = 1

FlagOnlyRises ==
    /\ ~vector_store_ready
    /\ [][/\ vector_store_ready => vector_store_ready'
          /\ (~vector_store_ready /\ vector_store_ready')
                => (last'.op = "process" /\ last'.outcome = "ok")
          /\ (vector_store_ready /\ query_ui /\ last'.op = "process")
                => query_ui']_vars

\* C7 witness: a build failed after an earlier success and the query UI is still there
FlagOnlyRises_witness ==
    /\ last.op = "process" /\ last.outcome = "build_raised"
    /\ vector_store_ready /\ query_ui

\* C8: a "Process Document" run whose loading or build raises shows the error, keeps the
\* cleared directory with the newly staged file in it (no rollback), and leaves the
\* session flag as it was: still false when it was false.
FailedBuildKeepsStagedFile ==
    [][(last'.op = "process" /\ last'.outcome \in {"load_raised", "build_raised"}) =>
        /\ HasBanner(last', "error", "Error processing document")
        /\ ~HasBanner(last', "success", "Vector Store Index Built Successfully!")
        /\ HoldsUpload(data', last'.file)
        /\ \A n \in last'.deleted \ {last'.file.name} : n \notin DOMAIN data'.files
        /\ vector_store_ready' = vector_store_ready
        /\ (~vector_store_ready => ~vector_store_ready')]_vars

\* C8 witness: a build raised after the previous file was deleted; the flag is false
FailedBuildKeepsStagedFile_witness ==
    /\ last.op = "process" /\ last.outcome = "build_raised"
    /\ last.deleted # {}
    /\ HoldsUpload(data, last.file)
    /\ ~vector_store_ready

\* C9: when deleting some entry fails during staging, the failure is reported for that
\* entry, every other file entry is still deleted, the new file is written, and the
\* handler goes on to load_all_documents on the directory and to the index build.
DeleteFailureDoesNotAbort ==
    [][(last'.op = "process" /\ last'.failed # {}) =>
        /\ \A n \in last'.failed :
              \E b \in last'.banners :
                  b.level = "error" /\ b.text = "Failed to delete" /\ b.about = n
        /\ \A n \in DOMAIN data.files \ (last'.failed \cup {last'.file.name}) :
              data.files[n].kind # "dir" => n \notin DOMAIN data'.files
        /\ HoldsUpload(data', last'.file)
        /\ Len(last'.calls) >= 1
        /\ last'.calls[1] = [fn |-> "load_all_documents", arg |-> "data", top_k |-> 0]
        /\ last'.outcome # "load_raised"
              => Len(CallsOf(last', "build_from_documents")) = 1]_vars

\* C9 witness: one deletion failed, another entry was deleted, and the run succeeded
DeleteFailureDoesNotAbort_witness ==
    /\ last.op = "process" /\ last.outcome = "ok"
    /\ last.failed # {} /\ last.deleted # {}
    /\ HoldsUpload(data, last.file)

Finished == \A p \in Procs : pc[p] \in {"done", "raised"}
LastWriter == wrote[Len(wrote)]

====
